---- MODULE Spec2Model ----
(***************************************************************************)
(* A model of typed_params.BaseModel: the type-directed binding of a       *)
(* JSON-shaped nested structure onto declared model classes, with its      *)
(* location breadcrumb, its errors, its completeness check, its validation *)
(* hook, re-binding and structural equality.                               *)
(***************************************************************************)
EXTENDS Naturals, Sequences, FiniteSets, TLC

VARIABLES obj, src, other, last, eq

vars == <<obj, src, other, last, eq>>

(***************************************************************************)
(* Bounds.                                                                 *)
(***************************************************************************)
\* longest list / largest dict given to a collection field
MaxLen == 2

(***************************************************************************)
(* Python values.  Every value is a record of one shape:                   *)
(*   kind  "prim" | "list" | "dict" | "model" | "none"                     *)
(*   prim  the primitive's value (a str)                                   *)
(*   cls   the class of a model instance                                   *)
(*   keys  a dict's keys in insertion order; an instance's attribute names *)
(*         (vars(self) without _location_tracker) in insertion order       *)
(*   items a list's elements; a dict's / an instance's values              *)
(*   loc   an instance's _location_tracker string                          *)
(***************************************************************************)
Prim(s) ==
    [kind |-> "prim", prim |-> s, cls |-> "", keys |-> <<>>, items |-> <<>>, loc |-> ""]

List(xs) ==
    [kind |-> "list", prim |-> "", cls |-> "", keys |-> <<>>, items |-> xs, loc |-> ""]

Dict(ks, vs) ==
    [kind |-> "dict", prim |-> "", cls |-> "", keys |-> ks, items |-> vs, loc |-> ""]

Instance(c, ks, vs, l) ==
    [kind |-> "model", prim |-> "", cls |-> c, keys |-> ks, items |-> vs, loc |-> l]

NoObj ==
    [kind |-> "none", prim |-> "", cls |-> "", keys |-> <<>>, items |-> <<>>, loc |-> ""]

Range(s) == {s[i] : i \in 1..Len(s)}

IndexOf(s, x) == CHOOSE i \in 1..Len(s) : s[i] = x

\* d[k] for a dict or an instance attribute that is present
Get(d, k) == d.items[IndexOf(d.keys, k)]

\* type(value).__name__ of a raw value
TypeName(v) == IF v.kind = "prim" THEN "str" ELSE v.kind

(***************************************************************************)
(* Type hints, as typing.get_origin / typing.get_args see them: a bare     *)
(* type (str, list, dict, a class) has no args; list[X], dict[K, V] and    *)
(* Union[...] have.                                                        *)
(***************************************************************************)
Hint(n, as) == [name |-> n, args |-> as]

None == "None"

get_origin(h) == IF h.args = <<>> THEN None ELSE h.name

get_args(h) == h.args

T_str == Hint("str", <<>>)

T_int == Hint("int", <<>>)

T_union == Hint("Union", <<T_str, T_int>>)

\* The model classes the bind is exercised on (subclasses of BaseModel that
\* declare annotations only), each with its __annotations__ in declaration
\* order.
ModelClasses == {"Inner", "Twin", "Checked", "Empty", "Plain", "Outer", "Holder", "HasEmpty", "Top"}

Field(n, h) == [name |-> n, hint |-> h]

Annotations(c) ==
    CASE c = "Inner"    -> <<Field("VAL", T_str)>>
      [] c = "Twin"     -> <<Field("VAL", T_str)>>
      [] c = "Checked"  -> <<Field("VAL", T_str)>>
      [] c = "Empty"    -> <<>>
      [] c = "Plain"    -> <<Field("TAGS", Hint("list", <<T_str>>)),
                             Field("RAW", Hint("dict", <<>>))>>
      [] c = "Outer"    -> <<Field("NAME", T_str),
                             Field("ITEMS", Hint("list", <<Hint("Inner", <<>>)>>))>>
      [] c = "Holder"   -> <<Field("BY_KEY", Hint("dict", <<T_str, Hint("Checked", <<>>)>>)),
                             Field("ALIAS", Hint("dict", <<T_str, T_union>>))>>
      [] c = "HasEmpty" -> <<Field("E", Hint("Empty", <<>>))>>
      [] c = "Top"      -> <<Field("CHILD", Hint("Outer", <<>>))>>

FieldNames(c) == {Annotations(c)[i].name : i \in 1..Len(Annotations(c))}

HintOf(c, n) ==
    LET a == Annotations(c)
    IN a[CHOOSE i \in 1..Len(a) : a[i].name = n].hint

\* issubclass(t, BaseModel) for a bare type t
IsSubclassOfBaseModel(t) == t \in ModelClasses

(***************************************************************************)
(* Errors.  An exception is a record: its Python type, which raise site    *)
(* built the message, what the message names, and the " Location:..."      *)
(* suffix when the message has one.                                        *)
(***************************************************************************)
NoError ==
    [raised |-> FALSE, type |-> "", site |-> "", cls |-> "", name |-> "",
     value |-> NoObj, actual |-> "", expected |-> "",
     hasLocation |-> FALSE, location |-> ""]

Message(site, c, n, v, act, exp) ==
    [NoError EXCEPT !.site = site, !.cls = c, !.name = n, !.value = v,
                    !.actual = act, !.expected = exp]

\* faulty variant of raise_error_with_location: the location is not appended
raise_error_without_location(error, error_message, location) ==
    [error_message EXCEPT !.raised = TRUE, !.type = error]

\* raise error(f"{error_message} Location:{location}")
raise_error_with_location(error, error_message, location) ==
    [error_message EXCEPT !.raised = TRUE, !.type = error,
                          !.hasLocation = TRUE, !.location = location]

\* raise error(message): a message without a location suffix
Raise(error, error_message) ==
    [error_message EXCEPT !.raised = TRUE, !.type = error]

(***************************************************************************)
(* The trace of one bind: what happened, in order.  path identifies the    *)
(* instance in the tree being built (the field names, list indices and     *)
(* dict keys that lead to it); arg is the location_tracker argument its    *)
(* __init__ received.                                                      *)
(***************************************************************************)
Ev(e, path, c, loc, arg, n) ==
    [ev |-> e, path |-> path, cls |-> c, loc |-> loc, arg |-> arg, name |-> n]

Result(inst, err, log) == [inst |-> inst, err |-> err, log |-> log]

(***************************************************************************)
(* BaseModel.                                                              *)
(***************************************************************************)
\* setattr(self, param_name, result)
SetAttr(self, n, v) ==
    IF n \in Range(self.keys)
    THEN [self EXCEPT !.items[IndexOf(self.keys, n)] = v]
    ELSE [self EXCEPT !.keys = Append(self.keys, n), !.items = Append(self.items, v)]

\* hasattr(self, attribute_name), for a declared field of a class that gives
\* its fields no class-level value: the instance's own attributes decide
HasAttr(self, n) == n \in Range(self.keys)

\* faulty variant of to_dict: _location_tracker is not deleted
to_dict_with_private(self) ==
    Dict(<<"_location_tracker">> \o self.keys, <<Prim(self.loc)>> \o self.items)

\* to_dict: vars(self) without _location_tracker; sub-objects are not converted
to_dict(self) == Dict(self.keys, self.items)

\* __str__ / __repr__
Str(self) == "(" \o self.cls \o " Location:" \o self.loc \o ")"

\* run_validations: a no-op in BaseModel.  Checked overrides it and rejects
\* VAL = "b"; the exception it raises is its own.
run_validations(self) ==
    IF self.cls = "Checked" /\ HasAttr(self, "VAL") /\ Get(self, "VAL") = Prim("b")
    THEN Raise("ValidationError", Message("run_validations", self.cls, "VAL", Prim("b"), "", ""))
    ELSE NoError

\* faulty variant of CheckParamBeingLoaded: the error is raised without its location
CheckParamBeingLoadedNoLocation(self, param_name) ==
    IF ~(param_name \in FieldNames(self.cls))
    THEN Raise("ValueError", Message("unknown_key", "", param_name, NoObj, "", ""))
    ELSE NoError

\* _check_param_being_loaded_is_in_type_definition
CheckParamBeingLoaded(self, param_name) ==
    IF ~(param_name \in FieldNames(self.cls))
    THEN raise_error_with_location("ValueError",
             Message("unknown_key", "", param_name, NoObj, "", ""), self.loc)
    ELSE NoError

\* faulty variant of CheckHasAllAttributes: the loop leaves after the first annotation
CheckFirstAttributeOnly(self) ==
    LET a == Annotations(self.cls)
    IN IF a # <<>> /\ ~(a[1].name \in Range(self.keys))
       THEN raise_error_with_location("ValueError",
                Message("missing_attribute", "", a[1].name, NoObj, "", ""), self.loc)
       ELSE NoError

\* _check_params_object_has_all_attributes_in_type_definition: the first
\* annotation, in declaration order, that the instance has no attribute for
CheckHasAllAttributes(self) ==
    LET a == Annotations(self.cls)
        missing == {i \in 1..Len(a) : ~HasAttr(self, a[i].name)}
    IN IF missing # {}
       THEN LET first == CHOOSE i \in missing : \A j \in missing : i <= j
            IN raise_error_with_location("ValueError",
                   Message("missing_attribute", "", a[first].name, NoObj, "", ""), self.loc)
       ELSE NoError

\* _should_do_list_conversion
ShouldDoListConversion(type_origin, type_args) ==
    /\ type_origin = "list"
    /\ type_args # <<>>
    /\ get_origin(type_args[1]) = None
    /\ IsSubclassOfBaseModel(type_args[1].name)

\* _should_do_dict_conversion
ShouldDoDictConversion(type_origin, type_args) ==
    /\ type_origin = "dict"
    /\ Len(type_args) = 2
    /\ get_origin(type_args[2]) = None
    /\ IsSubclassOfBaseModel(type_args[2].name)

\* the type(param_value) test of _do_list_conversion / _do_dict_conversion
TypeHintAndValueDoNotMatch(type_origin, param_value) ==
    param_value.kind # type_origin

\* faulty variant of TypeMismatch: the message gives the two types the wrong way round
TypeMismatchSwapped(self, type_origin, param_value, param_name) ==
    raise_error_with_location("ValueError",
        Message("type_mismatch", "", param_name, param_value,
                type_origin, TypeName(param_value)), self.loc)

TypeMismatch(self, type_origin, param_value, param_name) ==
    raise_error_with_location("ValueError",
        Message("type_mismatch", "", param_name, param_value,
                TypeName(param_value), type_origin), self.loc)

\* what the callee did, after what was done before it
After(log, r) == Result(r.inst, r.err, log \o r.log)

RECURSIVE BaseModelInit(_, _, _, _)
RECURSIVE LoadItems(_, _, _, _)
RECURSIVE BindEach(_, _, _, _, _, _, _, _)

\* faulty variant of CheckAndValidate: run_validations is called before the
\* completeness check
ValidateThenCheck(a, path) ==
    LET e(x)    == Ev(x, path, a.inst.cls, a.inst.loc, "", "")
        missing == CheckHasAllAttributes(a.inst)
        invalid == run_validations(a.inst)
        begun   == <<e("bind")>> \o a.log
    IN IF a.err.raised THEN Result(a.inst, a.err, begun)
       ELSE IF invalid.raised THEN Result(a.inst, invalid, begun \o <<e("hook"), e("raise")>>)
       ELSE IF missing.raised THEN Result(a.inst, missing, begun \o <<e("hook"), e("raise")>>)
       ELSE Result(a.inst, NoError, begun \o <<e("hook"), e("checked"), e("done")>>)

\* the last two steps of set_params_from_params_dict, on what
\* _set_attributes_from_params_dict (a) left: the completeness check, then
\* run_validations
CheckAndValidate(a, path) ==
    LET e(x)    == Ev(x, path, a.inst.cls, a.inst.loc, "", "")
        missing == CheckHasAllAttributes(a.inst)
        invalid == run_validations(a.inst)
        begun   == <<e("bind")>> \o a.log
    IN IF a.err.raised THEN Result(a.inst, a.err, begun)
       ELSE IF missing.raised THEN Result(a.inst, missing, begun \o <<e("raise")>>)
       ELSE IF invalid.raised
            THEN Result(a.inst, invalid, begun \o <<e("checked"), e("hook"), e("raise")>>)
       ELSE Result(a.inst, NoError, begun \o <<e("checked"), e("hook"), e("done")>>)

\* faulty variant of SetAttributesFromParamsDict: the type hints are read from the
\* class, which gives none for a class without annotations and raises nothing
SetAttributesUnchecked(self, params_dict, path) ==
    IF params_dict.kind # "dict"
    THEN Result(self, Raise("AttributeError",
             Message("no_items", "", "", NoObj, TypeName(params_dict), "")),
             <<Ev("raise", path, self.cls, self.loc, "", "")>>)
    ELSE LoadItems(params_dict, 1, path, Result(self, NoError, <<>>))

\* _set_attributes_from_params_dict: get_type_hints(self) raises TypeError for
\* a class without annotations; params_dict.items() raises AttributeError for
\* a value that is no dict
SetAttributesFromParamsDict(self, params_dict, path) ==
    LET raised == <<Ev("raise", path, self.cls, self.loc, "", "")>>
    IN IF Annotations(self.cls) = <<>>
       THEN Result(self, Raise("ValueError",
                Message("no_attributes", self.cls, "", NoObj, "", "")), raised)
       ELSE IF params_dict.kind # "dict"
       THEN Result(self, Raise("AttributeError",
                Message("no_items", "", "", NoObj, TypeName(params_dict), "")), raised)
       ELSE LoadItems(params_dict, 1, path, Result(self, NoError, <<>>))

\* set_params_from_params_dict: set, then check completeness, then validate
SetParamsFromParamsDict(self, params_dict, path) ==
    CheckAndValidate(SetAttributesFromParamsDict(self, params_dict, path), path)

\* BaseModel.__init__(params_dict, location_tracker)
BaseModelInit(c, params_dict, location_tracker, path) ==
    LET loc == location_tracker \o " > " \o c
    IN After(<<Ev("init", path, c, loc, location_tracker, "")>>,
             SetParamsFromParamsDict(Instance(c, <<>>, <<>>, loc), params_dict, path))

\* _do_list_conversion
DoListConversion(self, type_origin, type_args, param_value, param_name, path) ==
    IF type_origin = "list" /\ TypeHintAndValueDoNotMatch("list", param_value)
    THEN Result(param_value, TypeMismatch(self, type_origin, param_value, param_name),
                <<Ev("raise", path, self.cls, self.loc, "", param_name)>>)
    ELSE BindEach(self, type_args[1].name, param_value, param_name,
                  "Element", 1, path, Result(List(<<>>), NoError, <<>>))

\* _do_dict_conversion
DoDictConversion(self, type_origin, type_args, param_value, param_name, path) ==
    IF type_origin = "dict" /\ TypeHintAndValueDoNotMatch("dict", param_value)
    THEN Result(param_value, TypeMismatch(self, type_origin, param_value, param_name),
                <<Ev("raise", path, self.cls, self.loc, "", param_name)>>)
    ELSE BindEach(self, type_args[2].name, param_value, param_name,
                  "Key", 1, path, Result(Dict(<<>>, <<>>), NoError, <<>>))

\* faulty variant of Where: the field name is left out of the element's location
WhereWithoutField(self, param_name, how, at) ==
    self.loc \o " > " \o how \o " " \o at

\* the location_tracker handed to the instance made from one entry:
\* f"{self._location_tracker} > {param_name} > Element {i}", or "... > Key {key}"
Where(self, param_name, how, at) ==
    self.loc \o " > " \o param_name \o " > " \o how \o " " \o at

\* one more entry of the collection being built
Collect(acc, k, r) ==
    Result([acc.inst EXCEPT !.keys  = IF acc.inst.kind = "dict" THEN Append(@, k) ELSE @,
                            !.items = Append(@, r.inst)],
           r.err, acc.log \o r.log)

\* the comprehension of _do_list_conversion (how = "Element": enumerate) and
\* of _do_dict_conversion (how = "Key": items()), from the i-th entry on;
\* acc.inst is the collection of the instances built so far
BindEach(self, c, param_value, param_name, how, i, path, acc) ==
    IF i > Len(param_value.items) \/ acc.err.raised THEN acc
    ELSE LET at == IF how = "Element" THEN ToString(i - 1) ELSE param_value.keys[i]
         IN BindEach(self, c, param_value, param_name, how, i + 1, path,
                     Collect(acc, at,
                             BaseModelInit(c, param_value.items[i],
                                           Where(self, param_name, how, at),
                                           path \o <<param_name, at>>)))

\* result after the second and the third test of
\* _convert_typed_subparams_to_objects, r being the result before them
ConvertCollections(self, type_origin, type_args, param_name, param_value, path, r) ==
    IF r.err.raised THEN r
    ELSE IF ShouldDoListConversion(type_origin, type_args)
    THEN After(r.log, DoListConversion(self, type_origin, type_args,
                                       param_value, param_name, path))
    ELSE IF ShouldDoDictConversion(type_origin, type_args)
    THEN After(r.log, DoDictConversion(self, type_origin, type_args,
                                       param_value, param_name, path))
    ELSE r

\* _convert_typed_subparams_to_objects: result = param_value, then the three
\* tests in sequence, each overwriting result
ConvertTypedSubparamsToObjects(self, param_name, param_value, path) ==
    LET type_hint   == HintOf(self.cls, param_name)
        type_origin == IF get_origin(type_hint) = None THEN type_hint.name
                       ELSE get_origin(type_hint)
        type_args   == get_args(type_hint)
    IN ConvertCollections(self, type_origin, type_args, param_name, param_value, path,
           IF IsSubclassOfBaseModel(type_origin)
           THEN BaseModelInit(type_origin, param_value, self.loc, Append(path, param_name))
           ELSE Result(param_value, NoError, <<>>))

\* setattr(self, param_name, result), result being what the conversion gave
Store(acc, param_name, conv, path) ==
    IF conv.err.raised THEN Result(acc.inst, conv.err, acc.log \o conv.log)
    ELSE Result(SetAttr(acc.inst, param_name, conv.inst), NoError,
                acc.log \o conv.log
                    \o <<Ev("set", path, acc.inst.cls, acc.inst.loc, "", param_name)>>)

\* one round of the loop of _set_attributes_from_params_dict
LoadItem(acc, param_name, param_value, path) ==
    LET unknown == CheckParamBeingLoaded(acc.inst, param_name)
    IN IF unknown.raised
       THEN Result(acc.inst, unknown,
                   acc.log \o <<Ev("raise", path, acc.inst.cls, acc.inst.loc, "", param_name)>>)
       ELSE Store(acc, param_name,
                  ConvertTypedSubparamsToObjects(acc.inst, param_name, param_value, path),
                  path)

RECURSIVE LoadItemsSkipLast(_, _, _, _)

\* faulty variant of LoadItems: the loop stops one item early
LoadItemsSkipLast(params_dict, i, path, acc) ==
    IF i >= Len(params_dict.keys) \/ acc.err.raised THEN acc
    ELSE LoadItemsSkipLast(params_dict, i + 1, path,
                           LoadItem(acc, params_dict.keys[i], params_dict.items[i], path))

\* the loop of _set_attributes_from_params_dict, from the i-th item on
LoadItems(params_dict, i, path, acc) ==
    IF i > Len(params_dict.keys) \/ acc.err.raised THEN acc
    ELSE LoadItems(params_dict, i + 1, path,
                   LoadItem(acc, params_dict.keys[i], params_dict.items[i], path))

(***************************************************************************)
(* __eq__: Python's == on the values of the model.                         *)
(***************************************************************************)
RECURSIVE PyEq(_, _)

\* BaseModel.__eq__ for two instances; list and dict equality as Python
\* defines them (a dict's order does not count)
PyEq(a, b) ==
    CASE a.kind # b.kind -> FALSE
      [] a.kind = b.kind /\ a.kind = "prim" -> a.prim = b.prim
      [] a.kind = b.kind /\ a.kind = "list" ->
            /\ Len(a.items) = Len(b.items)
            /\ \A i \in 1..Len(a.items) : PyEq(a.items[i], b.items[i])
      [] a.kind = b.kind /\ a.kind = "dict" ->
            /\ Range(a.keys) = Range(b.keys)
            /\ \A k \in Range(a.keys) : PyEq(Get(a, k), Get(b, k))
      [] a.kind = b.kind /\ a.kind = "model" ->
            a.cls = b.cls /\ PyEq(to_dict(a), to_dict(b))
      [] OTHER -> TRUE

(***************************************************************************)
(* The input structures the operations are exercised on: what json.load    *)
(* can hand over (dicts with str keys, lists, primitives), drawn per class *)
(* so that the valid shapes and each way of being invalid occur.           *)
(***************************************************************************)
PrimVals == {"a", "b"}

\* a key no class declares
UnknownKey == "BAD"

RECURSIVE RemoveAt(_, _)
RemoveAt(s, i) == SubSeq(s, 1, i - 1) \o SubSeq(s, i + 1, Len(s))

InsertAt(s, i, x) == SubSeq(s, 1, i - 1) \o <<x>> \o SubSeq(s, i, Len(s))

RECURSIVE Perms(_)
Perms(s) ==
    IF s = <<>> THEN {<<>>}
    ELSE UNION {{<<s[i]>> \o p : p \in Perms(RemoveAt(s, i))} : i \in 1..Len(s)}

DeclaredOrder(c) == [i \in 1..Len(Annotations(c)) |-> Annotations(c)[i].name]

\* key orders of a mapping given to the constructor: the declared keys in
\* every order, one key left out, the unknown key at every position, only
\* the unknown key, and no key
TopKeySeqs(c) ==
    LET d == DeclaredOrder(c)
    IN Perms(d)
       \cup {RemoveAt(d, i) : i \in 1..Len(d)}
       \cup {InsertAt(d, i, UnknownKey) : i \in 1..Len(d) + 1}
       \cup {<<UnknownKey>>, <<>>}

\* key orders of a mapping nested inside another
NestedKeySeqs(c) ==
    LET d == DeclaredOrder(c)
    IN {d, <<UnknownKey>>, <<>>} \cup (IF d = <<>> THEN {} ELSE {SubSeq(d, 1, Len(d) - 1)})

\* the element every class used as an element type accepts
Sample == Dict(<<"VAL">>, <<Prim("a")>>)

\* the sequences of at most n elements that are Sample everywhere but, at
\* most, at one position, where any element of S stands
SeqsUpTo(S, n) ==
    {[i \in 1..k |-> Sample] : k \in 0..n}
    \cup {[i \in 1..k |-> IF i = j THEN x ELSE Sample] : k \in 1..n, j \in 1..n, x \in S}

KeyName(i) == "k" \o ToString(i)

RECURSIVE Mappings(_, _)
RECURSIVE Candidates(_, _)
RECURSIVE ValueTuples(_, _, _, _)

\* the values tried for a field with type hint h at nesting depth d
Candidates(h, d) ==
    LET n == IF MaxLen > d THEN MaxLen - d ELSE 0
        sample == Sample
    IN CASE h.name \in ModelClasses -> Mappings(h.name, d + 1) \cup {Prim("a")}
         [] h.name = "list" /\ h.args # <<>> /\ h.args[1].name \in ModelClasses ->
                {List(q) : q \in SeqsUpTo(Mappings(h.args[1].name, d + 1), n)}
                \cup {Prim("a"), sample}
         [] h.name = "dict" /\ Len(h.args) = 2 /\ h.args[2].name \in ModelClasses ->
                {Dict([i \in 1..Len(q) |-> KeyName(i)], q) :
                    q \in SeqsUpTo(Mappings(h.args[2].name, d + 1), n)}
                \cup {Prim("a"), List(<<sample>>)}
         [] h.name = "list" -> {List(<<Prim("a"), Prim("b")>>), List(<<sample>>), Prim("a")}
         [] h.name = "dict" -> {Dict(<<>>, <<>>), Dict(<<"k1">>, <<sample>>)}
         [] OTHER -> {Prim(v) : v \in PrimVals}

\* the value tuples for the keys ks[i..] of a mapping for class c
ValueTuples(c, ks, i, d) ==
    IF i > Len(ks) THEN {<<>>}
    ELSE LET here == IF ks[i] \in FieldNames(c) THEN Candidates(HintOf(c, ks[i]), d)
                     ELSE {Prim("a")}
         IN {<<v>> \o rest : v \in here, rest \in ValueTuples(c, ks, i + 1, d)}

\* the mappings tried for class c at nesting depth d (0: the constructor's)
Mappings(c, d) ==
    LET keyseqs == IF d = 0 THEN TopKeySeqs(c) ELSE NestedKeySeqs(c)
    IN UNION {{Dict(ks, vs) : vs \in ValueTuples(c, ks, 1, d)} : ks \in keyseqs}

Inputs == [c \in ModelClasses |-> Mappings(c, 0)]

\* the smaller mappings, tried when re-binding
Inputs1 == [c \in ModelClasses |-> Mappings(c, 1)]

\* load_params_dict_from_json_file: the documents on disk, already parsed
FileSystem ==
    [path \in {"inner.json", "outer.json", "partial.json"} |->
        CASE path = "inner.json"   -> Dict(<<"VAL">>, <<Prim("b")>>)
          [] path = "outer.json"   -> Dict(<<"ITEMS", "NAME">>,
                                           <<List(<<Dict(<<"VAL">>, <<Prim("b")>>)>>), Prim("b")>>)
          [] path = "partial.json" -> Dict(<<"NAME">>, <<Prim("b")>>)]

load_params_dict_from_json_file(file_path) == FileSystem[file_path]

(***************************************************************************)
(* The state: obj is the instance the caller holds (NoObj: none), src the  *)
(* class and mapping it was constructed from, other a second instance to   *)
(* compare it with, last the most recent call (its arguments, what it      *)
(* raised, its trace), eq the result of obj == other.  A behaviour follows *)
(* one instance from its construction on.                                  *)
(***************************************************************************)
NoParams == NoObj

Call(op, c, params, err, log) ==
    [op |-> op, cls |-> c, params |-> params, err |-> err, log |-> log]

NoSrc == [cls |-> "", params |-> NoParams]

Init ==
    /\ obj = NoObj
    /\ src = NoSrc
    /\ other = NoObj
    /\ last = Call("none", "", NoParams, NoError, <<>>)
    /\ eq = "none"

\* obj = c(params_dict): a construction that raises leaves no instance
Construct(c, params_dict) ==
    LET r == BaseModelInit(c, params_dict, "", <<>>)
    IN /\ last.op = "none"
       /\ obj' = IF r.err.raised THEN NoObj ELSE r.inst
       /\ src' = IF r.err.raised THEN NoSrc ELSE [cls |-> c, params |-> params_dict]
       /\ last' = Call("construct", c, params_dict, r.err, r.log)
       /\ UNCHANGED <<other, eq>>

\* obj.set_params_from_params_dict(params_dict): what was set before the
\* call raised stays set
Rebind(params_dict) ==
    LET r == SetParamsFromParamsDict(obj, params_dict, <<>>)
    IN /\ obj # NoObj
       /\ obj' = r.inst
       /\ last' = Call("rebind", obj.cls, params_dict, r.err, r.log)
       /\ UNCHANGED <<src, other, eq>>

\* obj.set_params_from_params_json_file(file_path)
RebindFromFile(file_path) ==
    LET params_dict == load_params_dict_from_json_file(file_path)
        r == SetParamsFromParamsDict(obj, params_dict, <<>>)
    IN /\ obj # NoObj
       /\ obj' = r.inst
       /\ last' = Call("rebind_file", obj.cls, params_dict, r.err, r.log)
       /\ UNCHANGED <<src, other, eq>>

\* other = c(params_dict), once obj is there
ConstructOther(c, params_dict) ==
    LET r == BaseModelInit(c, params_dict, "", <<>>)
    IN /\ obj # NoObj
       /\ other = NoObj
       /\ ~r.err.raised
       /\ other' = r.inst
       /\ last' = Call("construct_other", c, params_dict, r.err, r.log)
       /\ UNCHANGED <<obj, src, eq>>

\* obj == other
Compare ==
    /\ obj # NoObj
    /\ other # NoObj
    /\ eq = "none"
    /\ eq' = IF PyEq(obj, other) THEN "True" ELSE "False"
    /\ UNCHANGED <<obj, src, other, last>>

\* the mappings tried on the instance the caller holds
RebindInputs == IF obj = NoObj THEN {} ELSE Inputs1[obj.cls]

Next ==
    \/ \E c \in ModelClasses : \E m \in Inputs[c] : Construct(c, m)
    \/ \E m \in RebindInputs : Rebind(m)
    \/ \E f \in DOMAIN FileSystem : RebindFromFile(f)

Spec == Init /\ [][Next]_vars

NextEq ==
    \/ \E c \in ModelClasses : \E m \in Inputs[c] : Construct(c, m)
    \/ \E c \in ModelClasses : \E m \in Inputs[c] : ConstructOther(c, m)
    \/ Compare

SpecEq == Init /\ [][NextEq]_vars

(***************************************************************************)
(* What the claims speak of.                                               *)
(***************************************************************************)
\* the kind of a declared field: a model class, a list of one, a dict of
\* one, or a type that is stored as given
Descriptor(h) ==
    IF h.args = <<>> /\ h.name \in ModelClasses THEN "Submodel"
    ELSE IF h.name = "list" /\ Len(h.args) = 1 /\ h.args[1].args = <<>>
            /\ h.args[1].name \in ModelClasses THEN "SequenceOfSubmodel"
    ELSE IF h.name = "dict" /\ Len(h.args) = 2 /\ h.args[2].args = <<>>
            /\ h.args[2].name \in ModelClasses THEN "MappingOfSubmodel"
    ELSE "Opaque"

\* the model class a field of that kind holds
ClassIn(h) ==
    CASE Descriptor(h) = "Submodel" -> h.name
      [] Descriptor(h) = "SequenceOfSubmodel" -> h.args[1].name
      [] Descriptor(h) = "MappingOfSubmodel" -> h.args[2].name
      [] OTHER -> ""

\* the validation hook of class c accepts an instance bound from mapping m
HookAccepts(c, m) == c = "Checked" => Get(m, "VAL") # Prim("b")

RECURSIVE Matches(_, _, _)

\* m is a mapping whose key set is exactly the declared field set of c, with
\* a mapping for each submodel field, a list of mappings for each
\* sequence-of-submodel field and a dict of mappings for each
\* mapping-of-submodel field, recursively, and that the hooks accept; with
\* needFields, every class met must also declare at least one field
Matches(c, m, needFields) ==
    /\ m.kind = "dict"
    /\ Range(m.keys) = FieldNames(c)
    /\ needFields => Annotations(c) # <<>>
    /\ \A i \in 1..Len(m.keys) :
          LET h == HintOf(c, m.keys[i])
              v == m.items[i]
          IN CASE Descriptor(h) = "Submodel" -> Matches(ClassIn(h), v, needFields)
               [] Descriptor(h) = "SequenceOfSubmodel" ->
                      /\ v.kind = "list"
                      /\ \A j \in 1..Len(v.items) : Matches(ClassIn(h), v.items[j], needFields)
               [] Descriptor(h) = "MappingOfSubmodel" ->
                      /\ v.kind = "dict"
                      /\ \A j \in 1..Len(v.items) : Matches(ClassIn(h), v.items[j], needFields)
               [] OTHER -> TRUE
    /\ HookAccepts(c, m)

RECURSIVE KeepsOpaque(_, _)

\* inst is an instance of its class bound from m, and every Opaque field of
\* it, and of every instance below it, holds the value m gives
KeepsOpaque(inst, m) ==
    /\ inst.kind = "model"
    /\ Range(inst.keys) = Range(m.keys)
    /\ \A k \in Range(m.keys) :
          LET h == HintOf(inst.cls, k)
              x == Get(inst, k)
              v == Get(m, k)
          IN CASE Descriptor(h) = "Submodel" -> x.cls = ClassIn(h) /\ KeepsOpaque(x, v)
               [] Descriptor(h) = "SequenceOfSubmodel" ->
                      /\ x.kind = "list" /\ Len(x.items) = Len(v.items)
                      /\ \A j \in 1..Len(v.items) :
                            x.items[j].cls = ClassIn(h) /\ KeepsOpaque(x.items[j], v.items[j])
               [] Descriptor(h) = "MappingOfSubmodel" ->
                      /\ x.kind = "dict" /\ x.keys = v.keys
                      /\ \A j \in 1..Len(v.items) :
                            x.items[j].cls = ClassIn(h) /\ KeepsOpaque(x.items[j], v.items[j])
               [] OTHER -> x = v

Constructed == last.op = "construct"

Log == last.log

Called == last.op \in {"construct", "rebind", "rebind_file"}

Frames == {i \in 1..Len(Log) : Log[i].ev = "bind"}

RECURSIVE InputAt(_, _)

\* the part of the input v that the instance at path was bound from
InputAt(v, path) ==
    IF path = <<>> THEN v
    ELSE IF v.kind = "dict" THEN InputAt(Get(v, Head(path)), Tail(path))
    ELSE InputAt(v.items[CHOOSE j \in 1..Len(v.items) : ToString(j - 1) = Head(path)],
                 Tail(path))

\* the mapping frame f was given
Given(f) == InputAt(last.params, Log[f].path)

\* frame f stored the attribute k
WasSet(f, k) ==
    \E i \in 1..Len(Log) : Log[i].ev = "set" /\ Log[i].path = Log[f].path /\ Log[i].name = k

\* frame f went through the first n items of its mapping without raising
Processed(f, n) == \A j \in 1..n : WasSet(f, Given(f).keys[j])

\* frame f iterates a mapping: its class has annotations and it got a dict
Iterates(f) == Annotations(Log[f].cls) # <<>> /\ Given(f).kind = "dict"

\* the call ended in a ValueError from raise_error_with_location, built at
\* site, naming n, with frame f's breadcrumb as its location
RaisedAt(f, site, n) ==
    /\ last.err.raised
    /\ last.err.type = "ValueError"
    /\ last.err.site = site
    /\ last.err.name = n
    /\ last.err.hasLocation
    /\ last.err.location = Log[f].loc
    /\ Log[Len(Log)].ev = "raise" /\ Log[Len(Log)].path = Log[f].path

\* s ends in " > c": it is some prefix among the locations of the trace, or
\* the empty one, extended by the class name
EndsInClass(s, c) ==
    \E pre \in {""} \cup {Log[i].arg : i \in 1..Len(Log)} : s = pre \o " > " \o c

\* C2: a frame, at any depth, that reaches a key its class does not declare
\* raises the unknown-key ValueError naming that key, with the frame's
\* breadcrumb, which ends in the frame's class name; the key is not stored.
C2_UnknownKeyRaises ==
    Called =>
        \A f \in Frames :
            Iterates(f) =>
                \A i \in 1..Len(Given(f).keys) :
                    (Given(f).keys[i] \notin FieldNames(Log[f].cls) /\ Processed(f, i - 1)) =>
                        /\ RaisedAt(f, "unknown_key", Given(f).keys[i])
                        /\ EndsInClass(last.err.location, Log[f].cls)
                        /\ ~WasSet(f, Given(f).keys[i])
                        /\ obj # NoObj => Given(f).keys[i] \notin Range(obj.keys)

\* C2 witness: the second element of a list of sub-mappings held an unknown
\* key, and the error names it with the element's breadcrumb
C2_Witness ==
    /\ Constructed
    /\ last.err.site = "unknown_key"
    /\ last.err.name = UnknownKey
    /\ last.err.location = " > Outer > ITEMS > Element 1 > Inner"

\* a frame on a new instance: every frame of a construction, and the frames
\* below the top of a re-bind
Fresh(f) == last.op = "construct" \/ Log[f].path # <<>>

\* C3: a frame on a new instance whose mapping holds only declared keys, but
\* not all of them, and which got through all its items, raises the
\* missing-attribute ValueError naming a field without a key, with the
\* frame's breadcrumb; and that error is raised only by a frame that has
\* stored every item of its mapping.
C3_MissingAttributeRaises ==
    Called =>
        \A f \in Frames :
            /\ (/\ Fresh(f) /\ Iterates(f)
                /\ Range(Given(f).keys) \subseteq FieldNames(Log[f].cls)
                /\ Range(Given(f).keys) # FieldNames(Log[f].cls)
                /\ Processed(f, Len(Given(f).keys))) =>
                    /\ \E n \in FieldNames(Log[f].cls) \ Range(Given(f).keys) :
                          RaisedAt(f, "missing_attribute", n)
            /\ (last.err.site = "missing_attribute" /\ Log[Len(Log)].path = Log[f].path) =>
                    /\ Iterates(f)
                    /\ Processed(f, Len(Given(f).keys))

\* C3 witness: a nested mapping lacked a declared field, and a top-level
\* mapping lacked one after its other key had been stored
C3_Witness ==
    /\ Constructed
    /\ last.err.site = "missing_attribute"
    /\ \/ last.err.location = " > Top > Outer" /\ last.err.name = "ITEMS"
       \/ /\ last.err.location = " > Outer" /\ last.err.name = "NAME"
          /\ \E i \in 1..Len(Log) : Log[i].ev = "set" /\ Log[i].name = "ITEMS"

\* C5: a frame, at the top or nested, on a class that declares no field ends
\* the call with the ValueError that names that class, whatever it is given.
C5_NoAttributesRaises ==
    Called =>
        \A f \in Frames :
            Annotations(Log[f].cls) = <<>> =>
                /\ last.err.raised
                /\ last.err.type = "ValueError"
                /\ last.err.site = "no_attributes"
                /\ last.err.cls = Log[f].cls
                /\ f = Len(Log) - 1

\* C5 witness: the class without fields was bound from the empty mapping as
\* the type of a field of another class
C5_Witness ==
    /\ Constructed /\ last.cls = "HasEmpty"
    /\ last.params = Dict(<<"E">>, <<Dict(<<>>, <<>>)>>)
    /\ last.err.site = "no_attributes"
    /\ last.err.cls = "Empty"

\* C7: a frame that reaches a list-of-model field given no list, or a
\* dict-of-model field given no dict, raises the type-mismatch ValueError
\* naming the field, the value, its type and the expected type, with the
\* frame's breadcrumb, and no instance is created from the value.
C7_TypeMismatchRaises ==
    Called =>
        \A f \in Frames :
            Iterates(f) =>
                \A i \in 1..Len(Given(f).keys) :
                    LET k == Given(f).keys[i]
                        v == Given(f).items[i]
                        d == Descriptor(HintOf(Log[f].cls, k))
                        want == IF d = "SequenceOfSubmodel" THEN "list" ELSE "dict"
                    IN (/\ \A j \in 1..i : Given(f).keys[j] \in FieldNames(Log[f].cls)
                        /\ Processed(f, i - 1)
                        /\ d \in {"SequenceOfSubmodel", "MappingOfSubmodel"}
                        /\ v.kind # want) =>
                            /\ RaisedAt(f, "type_mismatch", k)
                            /\ last.err.value = v
                            /\ last.err.actual = TypeName(v)
                            /\ last.err.expected = want
                            /\ ~\E e \in 1..Len(Log) :
                                  /\ Log[e].ev = "init"
                                  /\ Len(Log[e].path) > Len(Log[f].path)
                                  /\ SubSeq(Log[e].path, 1, Len(Log[f].path) + 1)
                                        = Append(Log[f].path, k)

\* C7 witness: a nested list-of-model field was given a str, a dict-of-model
\* field a list
C7_Witness ==
    /\ Constructed
    /\ last.err.site = "type_mismatch"
    /\ \/ /\ last.err.location = " > Top > Outer" /\ last.err.actual = "str"
          /\ last.err.expected = "list"
       \/ /\ last.err.location = " > Holder" /\ last.err.actual = "list"
          /\ last.err.expected = "dict"

IsPrefix(q, p) == Len(q) < Len(p) /\ SubSeq(p, 1, Len(q)) = q

\* the frame that created the instance of init event e: the deepest frame
\* whose path is a proper prefix of e's
ParentOf(e) ==
    CHOOSE g \in Frames :
        /\ IsPrefix(Log[g].path, Log[e].path)
        /\ \A h \in Frames : IsPrefix(Log[h].path, Log[e].path) =>
                                Len(Log[h].path) <= Len(Log[g].path)

\* init event e got the location its place asks for, and extended it by its
\* class name
InitPlaced(e) ==
    /\ Log[e].loc = Log[e].arg \o " > " \o Log[e].cls
    /\ IF Log[e].path = <<>> THEN Log[e].arg = ""
       ELSE LET g    == ParentOf(e)
                step == SubSeq(Log[e].path, Len(Log[g].path) + 1, Len(Log[e].path))
                h    == HintOf(Log[g].cls, step[1])
                d    == Descriptor(h)
            IN /\ Log[e].cls = ClassIn(h)
               /\ CASE d = "Submodel" -> Len(step) = 1 /\ Log[e].arg = Log[g].loc
                    [] d = "SequenceOfSubmodel" ->
                          /\ Len(step) = 2
                          /\ Log[e].arg = Log[g].loc \o " > " \o step[1]
                                              \o " > Element " \o step[2]
                    [] d = "MappingOfSubmodel" ->
                          /\ Len(step) = 2
                          /\ Log[e].arg = Log[g].loc \o " > " \o step[1]
                                              \o " > Key " \o step[2]
                    [] OTHER -> FALSE

RECURSIVE WellPlaced(_)

\* every instance below inst has the breadcrumb of inst, extended by the way
\* to it and by its own class name
WellPlaced(inst) ==
    \A i \in 1..Len(inst.keys) :
        LET k == inst.keys[i]
            x == inst.items[i]
            d == Descriptor(HintOf(inst.cls, k))
        IN CASE d = "Submodel" -> x.loc = inst.loc \o " > " \o x.cls /\ WellPlaced(x)
             [] d = "SequenceOfSubmodel" ->
                   \A j \in 1..Len(x.items) :
                       /\ x.items[j].loc = inst.loc \o " > " \o k \o " > Element "
                                               \o ToString(j - 1) \o " > " \o x.items[j].cls
                       /\ WellPlaced(x.items[j])
             [] d = "MappingOfSubmodel" ->
                   \A j \in 1..Len(x.items) :
                       /\ x.items[j].loc = inst.loc \o " > " \o k \o " > Key "
                                               \o x.keys[j] \o " > " \o x.items[j].cls
                       /\ WellPlaced(x.items[j])
             [] OTHER -> TRUE

\* the breadcrumbs of all instances created, in the trace and in what the
\* caller holds
BreadcrumbsChain ==
    /\ Called => \A e \in 1..Len(Log) : Log[e].ev = "init" => InitPlaced(e)
    /\ obj # NoObj => obj.loc = " > " \o obj.cls /\ WellPlaced(obj)

LocatedSites == {"unknown_key", "missing_attribute", "type_mismatch"}

\* C4 (as amended): every instance created has its parent's breadcrumb,
\* extended by the way to it (nothing for a direct field, " > F > Element i",
\* " > F > Key k") and by its class name; and an unknown-key,
\* missing-attribute or type-mismatch error raised while binding a child, at
\* any depth, reports that child's breadcrumb.
C4_BreadcrumbsChain ==
    /\ BreadcrumbsChain
    /\ (Called /\ last.err.raised /\ last.err.site \in LocatedSites) =>
           /\ last.err.hasLocation
           /\ last.err.location = Log[Len(Log)].loc

\* C4 witness: an error three instances deep, with the breadcrumb through a
\* direct field and a list element
C4_Witness ==
    /\ Constructed
    /\ last.err.raised
    /\ Len(Log[Len(Log)].path) = 3
    /\ last.err.location = " > Top > Outer > ITEMS > Element 0 > Inner"

\* C4 as stated: any of the bind's own errors (all ValueError) raised while
\* binding a child reports that child's breadcrumb
C4_AsStated ==
    /\ BreadcrumbsChain
    /\ (Called /\ last.err.raised /\ last.err.type = "ValueError"
            /\ Log[Len(Log)].path # <<>>) =>
           /\ last.err.hasLocation
           /\ last.err.location = Log[Len(Log)].loc

\* the events of the frame that starts at f
Of(f, what) == {i \in f..Len(Log) : Log[i].ev = what /\ Log[i].path = Log[f].path}

\* C8: in every frame run_validations is called at most once; exactly once
\* when the frame returns; only right after the completeness check passed,
\* with every item of the mapping stored, and right before the frame returns
\* or the hook's own error leaves it; never in a frame that an unknown-key,
\* missing-attribute, type-mismatch or no-attributes error leaves; and the
\* hook's error reaches the caller as raised.
C8_HookOncePerBind ==
    Called =>
        /\ \A f \in Frames :
              /\ Cardinality(Of(f, "hook")) <= 1
              /\ Of(f, "done") # {} => Cardinality(Of(f, "hook")) = 1
              /\ \A h \in Of(f, "hook") :
                    /\ Log[h - 1].ev = "checked" /\ Log[h - 1].path = Log[f].path
                    /\ Iterates(f) /\ Processed(f, Len(Given(f).keys))
                    /\ \A i \in Of(f, "set") : i < h
                    /\ Fresh(f) => \A n \in FieldNames(Log[f].cls) : WasSet(f, n)
                    /\ Log[h + 1].ev \in {"done", "raise"} /\ Log[h + 1].path = Log[f].path
                    /\ Log[h + 1].ev = "raise" => last.err.site = "run_validations"
              /\ (Iterates(f) /\ Log[f].cls = "Checked"
                      /\ Given(f) = Dict(<<"VAL">>, <<Prim("b")>>)) =>
                    /\ last.err.raised
                    /\ last.err.type = "ValidationError"
                    /\ last.err.site = "run_validations"
                    /\ ~last.err.hasLocation
                    /\ Log[Len(Log)].path = Log[f].path
        /\ (last.err.raised /\ last.err.site # "run_validations") =>
              \A f \in Frames : Of(f, "done") = {} => Of(f, "hook") = {}

\* C8 witness: the hook of the first value of a dict of models ran and that
\* frame returned, then the hook of the second raised, and its error is the
\* call's
C8_Witness ==
    /\ Constructed /\ last.cls = "Holder"
    /\ last.err.site = "run_validations"
    /\ Log[Len(Log)].path = <<"BY_KEY", "k2">>
    /\ \E i \in 1..Len(Log) : Log[i].ev = "done" /\ Log[i].path = <<"BY_KEY", "k1">>

\* C9 as stated: a re-bind from M raises exactly when constructing the class
\* from M raises, and otherwise leaves the instance equal to the one
\* constructed from M.
C9_RebindAsConstruction ==
    last.op \in {"rebind", "rebind_file"} =>
        LET fresh == BaseModelInit(obj.cls, last.params, "", <<>>)
        IN /\ last.err.raised <=> fresh.err.raised
           /\ ~last.err.raised => PyEq(obj, fresh.inst)

\* C10 (as amended): an unknown-key, missing-attribute or type-mismatch
\* error carries the breadcrumb of the instance being bound where it is
\* raised, at any depth; the no-attributes error names the class being bound
\* there and carries no breadcrumb.
C10_ErrorsLocated ==
    (Called /\ last.err.raised) =>
        /\ Log[Len(Log)].ev = "raise"
        /\ last.err.site \in LocatedSites =>
              /\ last.err.hasLocation
              /\ last.err.location = Log[Len(Log)].loc
              /\ EndsInClass(last.err.location, Log[Len(Log)].cls)
        /\ last.err.site = "no_attributes" =>
              /\ ~last.err.hasLocation
              /\ last.err.cls = Log[Len(Log)].cls

\* C10 witness: a missing attribute in the second value of a dict of models
C10_Witness ==
    /\ Called
    /\ last.err.site = "missing_attribute"
    /\ last.err.hasLocation
    /\ last.err.location = " > Holder > BY_KEY > Key k2 > Checked"

\* C10 as stated: each of the four kinds of error carries the breadcrumb
C10_AsStated ==
    (Called /\ last.err.raised
        /\ last.err.site \in LocatedSites \cup {"no_attributes"}) =>
            /\ last.err.hasLocation
            /\ last.err.location = Log[Len(Log)].loc

\* the instances one step below inst, each with the part of mapping m it
\* was bound from
Below(inst, m) ==
    UNION {LET k == inst.keys[i]
               x == inst.items[i]
               d == Descriptor(HintOf(inst.cls, k))
           IN CASE d = "Submodel" -> {<<x, Get(m, k)>>}
                [] d \in {"SequenceOfSubmodel", "MappingOfSubmodel"} ->
                      {<<x.items[j], Get(m, k).items[j]>> : j \in 1..Len(x.items)}
                [] OTHER -> {}
           : i \in 1..Len(inst.keys)}

\* C6: obj == other exactly when both are of one class and were constructed
\* from equal mappings; and an instance bound inside obj equals other when
\* other is of its class and was constructed at the top from an equal
\* mapping, the two breadcrumbs differing.
C6_EqualityIsStructural ==
    /\ eq # "none" =>
          (eq = "True" <=> (obj.cls = other.cls /\ PyEq(src.params, last.params)))
    /\ (obj # NoObj /\ other # NoObj) =>
          \A pair \in Below(obj, src.params) :
              /\ pair[1].loc # other.loc
              /\ PyEq(pair[1], other)
                    <=> (pair[1].cls = other.cls /\ PyEq(pair[2], last.params))

\* C6 witness: two classes with the same declared fields, constructed from
\* the same mapping, compared unequal
C6_Witness ==
    /\ eq = "False"
    /\ obj.cls = "Inner" /\ other.cls = "Twin"
    /\ src.params = last.params

====
